---- MODULE Spec2Model ----
(***************************************************************************)
(* Model of server/src/scripts/top-workplaces.ts: the paginated fetch      *)
(* loop (fetchAllPaginatedData), the concurrent fetch of the two           *)
(* collections joined by Promise.all, the filter / count / rank pipeline   *)
(* and the reporting of getTopWorkplaces.                                  *)
(*                                                                         *)
(* JavaScript values are encoded as follows.                               *)
(*   - a nullable value (workerId, cancelledAt, links.next) is a tuple:    *)
(*     <<>> is null, <<v>> or <<resource, page>> is a value;               *)
(*   - an object is a record; a property the object lacks is a field the   *)
(*     record lacks, and reading it yields undefined;                      *)
(*   - a Map is the sequence of its entries in insertion order.            *)
(***************************************************************************)
EXTENDS Integers, Sequences, FiniteSets

VARIABLES
    remote,      \* the remote service: per resource, the pages it serves
    initialUrl,  \* per fetch, the argument of fetchAllPaginatedData
    run          \* per invocation of the script, its state

vars == <<remote, initialUrl, run>>

(***************************************************************************)
(* Bounds of the model.                                                    *)
(***************************************************************************)
MaxShifts == 4

MaxPageSize == 2

(***************************************************************************)
(* Program constants.                                                      *)
(***************************************************************************)
\* results.slice(0, 3)
TopN == 3

\* the two collections fetched by getTopWorkplaces
Fetches == {"workplaces", "shifts"}

Null == <<>>

\* the empty string, the other falsy address
EmptyUrl == <<"">>

\* the address of page i of a resource listing
Url(f, i) == <<f, i>>

\* `${API_BASE_URL}/workplaces` and `${API_BASE_URL}/shifts`: the first pages
ProgramUrl(f) == Url(f, 1)

Min(a, b) == IF a <= b THEN a ELSE b

(***************************************************************************)
(* JavaScript helpers.                                                     *)
(***************************************************************************)
Has(o, p) == p \in DOMAIN o

\* F applied to the value of x, x evaluated once
WithValue(x, F(_)) == CHOOSE r \in {F(y) : y \in {x}} : TRUE

\* while (nextUrl): null, undefined and "" are falsy
TruthyUrl(u) == u # Null /\ u # EmptyUrl

\* Map.prototype.has / get / set over insertion-ordered entries
MapHas(m, k) == \E i \in DOMAIN m : m[i].key = k

MapGet(m, k) == m[CHOOSE i \in DOMAIN m : m[i].key = k].value

MapSet(m, k, v) ==
    IF MapHas(m, k)
    THEN [i \in DOMAIN m |-> IF m[i].key = k THEN [key |-> k, value |-> v] ELSE m[i]]
    ELSE Append(m, [key |-> k, value |-> v])

(***************************************************************************)
(* fetchAllPaginatedData                                                   *)
(***************************************************************************)
\* (mutant) a loop that tests only for the empty string: a null link is requested
LoopHead_NoNullTest(fs) ==
    IF fs.nextUrl # EmptyUrl
    THEN [fs EXCEPT !.pc = "awaiting", !.requests = Append(@, fs.nextUrl)]
    ELSE [fs EXCEPT !.pc = "done"]

\* the loop test and, when it passes, the request of the next page; otherwise
\* the return of allItems
LoopHead(fs) ==
    IF TruthyUrl(fs.nextUrl)
    THEN [fs EXCEPT !.pc = "awaiting", !.requests = Append(@, fs.nextUrl)]
    ELSE [fs EXCEPT !.pc = "done"]

\* a call: allItems = [], nextUrl = initialUrl, then the loop
CallFetch(url) ==
    LoopHead([pc |-> "called", nextUrl |-> url, allItems |-> <<>>,
              requests |-> <<>>, received |-> 0, error |-> "none"])

\* the body throws a TypeError when data is not iterable or links is undefined
BodyThrows(body) == ~Has(body, "data") \/ ~Has(body, "links")

LinksNext(body) == IF Has(body.links, "next") THEN body.links.next ELSE Null

\* (mutant) allItems = data in place of allItems.push(...data)
OnResponse_Overwrites(fs, resp) ==
    LET got == [fs EXCEPT !.received = @ + 1] IN
    IF ~resp.ok
    THEN [got EXCEPT !.pc = "failed", !.error = "axios"]
    ELSE IF BodyThrows(resp.body)
    THEN [got EXCEPT !.pc = "failed", !.error = "unexpected"]
    ELSE LoopHead([got EXCEPT !.allItems = resp.body.data,
                              !.nextUrl = LinksNext(resp.body)])

\* the continuation of `await axios.get(nextUrl)` for one response
OnResponse(fs, resp) ==
    LET got == [fs EXCEPT !.received = @ + 1] IN
    IF ~resp.ok
    THEN [got EXCEPT !.pc = "failed", !.error = "axios"]
    ELSE IF BodyThrows(resp.body)
    THEN [got EXCEPT !.pc = "failed", !.error = "unexpected"]
    ELSE LoopHead([got EXCEPT !.allItems = @ \o resp.body.data,
                              !.nextUrl = LinksNext(resp.body)])

(***************************************************************************)
(* getTopWorkplaces: the pipeline that runs once both fetches returned     *)
(***************************************************************************)
Front(s) == SubSeq(s, 1, Len(s) - 1)

Last(s) == s[Len(s)]

\* workplace.status === 0
IsActive(w) == Has(w, "status") /\ w.status = 0

\* for (const workplace of allWorkplaces) if (active) activeWorkplaceMap.set(id, name)
RECURSIVE BuildActiveMap(_)
BuildActiveMap(ws) ==
    IF ws = <<>> THEN <<>>
    ELSE LET w == Last(ws)
         IN  WithValue(BuildActiveMap(Front(ws)),
                       LAMBDA m : IF IsActive(w) THEN MapSet(m, w.id, w.name) ELSE m)

\* (mutant) the cancellation test left out
IsCompleted_IgnoresCancellation(s) == ~Has(s, "workerId") \/ s.workerId # Null

\* shift.workerId !== null && shift.cancelledAt === null
IsCompleted(s) ==
    /\ (~Has(s, "workerId") \/ s.workerId # Null)
    /\ (Has(s, "cancelledAt") /\ s.cancelledAt = Null)

\* isCompleted && activeWorkplaceMap.has(shift.workplaceId)
Qualifies(s, active) ==
    IsCompleted(s) /\ Has(s, "workplaceId") /\ MapHas(active, s.workplaceId)

\* shiftCounts.get(shift.workplaceId) || 0
CurrentCount(counts, id) == IF MapHas(counts, id) THEN MapGet(counts, id) ELSE 0

\* for (const shift of allShifts) if (qualifies) shiftCounts.set(id, currentCount + 1)
RECURSIVE CountShifts(_, _)
CountShifts(ss, active) ==
    IF ss = <<>> THEN <<>>
    ELSE LET s == Last(ss)
         IN  WithValue(CountShifts(Front(ss), active),
                       LAMBDA c : IF Qualifies(s, active)
                                  THEN MapSet(c, s.workplaceId,
                                              CurrentCount(c, s.workplaceId) + 1)
                                  ELSE c)

\* if (name): undefined and "" are falsy
TruthyName(active, id) == MapHas(active, id) /\ MapGet(active, id) # ""

\* for (const [workplaceId, count] of shiftCounts.entries()) if (name) results.push(...)
\* (id is not a property of the pushed object: it records which entry of
\* shiftCounts the result came from)
RECURSIVE BuildResults(_, _)
BuildResults(counts, active) ==
    IF counts = <<>> THEN <<>>
    ELSE LET e == Last(counts)
         IN  WithValue(BuildResults(Front(counts), active),
                       LAMBDA rs : IF TruthyName(active, e.key)
                                   THEN Append(rs, [id |-> e.key,
                                                    name |-> MapGet(active, e.key),
                                                    shifts |-> e.value])
                                   ELSE rs)

\* (mutant) the comparator of an ascending sort
Compare_Ascending(a, b) == a.shifts - b.shifts

\* the comparator (a, b) => b.shifts - a.shifts
Compare(a, b) == b.shifts - a.shifts

\* x placed behind every element that does not sort after it
InsertSorted(sorted, x) ==
    LET after == {i \in DOMAIN sorted : Compare(sorted[i], x) > 0}
        n     == IF after = {} THEN Len(sorted)
                 ELSE (CHOOSE i \in after : \A j \in after : i <= j) - 1
    IN  SubSeq(sorted, 1, n) \o <<x>> \o SubSeq(sorted, n + 1, Len(sorted))

\* results.sort(comparator): Array.prototype.sort is stable
RECURSIVE SortResults(_)
SortResults(rs) ==
    IF rs = <<>> THEN <<>>
    ELSE WithValue(SortResults(Front(rs)), LAMBDA sorted : InsertSorted(sorted, Last(rs)))

\* results.slice(0, 3)
SliceTop(rs) == SubSeq(rs, 1, Min(TopN, Len(rs)))

\* JSON.stringify(top3Workplaces, null, 2): the array of objects with their own
\* properties, name then shifts
Stringify(rs) == [i \in DOMAIN rs |-> [name |-> rs[i].name, shifts |-> rs[i].shifts]]

\* the statements of the try block that follow the await
Ranked(active, counts) ==
    WithValue(SortResults(BuildResults(counts, active)),
              LAMBDA results :
                  [activeWorkplaceMap |-> active, shiftCounts |-> counts,
                   results |-> results, top3Workplaces |-> SliceTop(results),
                   stdout |-> <<Stringify(SliceTop(results))>>])

Counted(active, allShifts) ==
    WithValue(CountShifts(allShifts, active), LAMBDA counts : Ranked(active, counts))

Pipeline(allWorkplaces, allShifts) ==
    WithValue(BuildActiveMap(allWorkplaces), LAMBDA active : Counted(active, allShifts))

(***************************************************************************)
(* The run: getTopWorkplaces() as the event loop executes it               *)
(***************************************************************************)
\* (mutant) Promise.race, or Promise.any, in place of Promise.all
PromiseAllResolved_Any(fetch) == \E f \in Fetches : fetch[f].pc = "done"

\* Promise.all resolves when every fetch has returned
PromiseAllResolved(fetch) == \A f \in Fetches : fetch[f].pc = "done"

\* Promise.all rejects as soon as one fetch throws
PromiseAllRejected(fetch) == \E f \in Fetches : fetch[f].pc = "failed"

\* (mutant) a catch block without process.exit(1): the process ends with status 0
Catch_NoExit(s, kind) ==
    [s EXCEPT !.pc = "exited",
              !.stderr = <<"Failed to fetch or process workplace data.",
                           IF kind = "axios" THEN "Axios error:"
                           ELSE "An unexpected error occurred:">>,
              !.exitCode = <<0>>]

\* the catch block: two console.error calls, then process.exit(1)
Catch(s, kind) ==
    [s EXCEPT !.pc = "exited",
              !.stderr = <<"Failed to fetch or process workplace data.",
                           IF kind = "axios" THEN "Axios error:"
                           ELSE "An unexpected error occurred:">>,
              !.exitCode = <<1>>]

\* what follows `await Promise.all([...])` once the fetch states are `fetch`:
\* nothing while a fetch is pending, the catch block when one threw, the rest of
\* the try block when both returned
\* (returned is history: the fetches in the order in which they returned)
Settle(s, fetch) ==
    LET new == {f \in Fetches : fetch[f].pc = "done" /\ s.fetch[f].pc # "done"}
        t   == [s EXCEPT !.fetch = fetch,
                         !.returned = IF new = {} THEN @
                                      ELSE IF new = Fetches THEN <<"workplaces", "shifts">>
                                      ELSE Append(@, CHOOSE f \in new : TRUE)]
    IN
    IF PromiseAllRejected(fetch)
    THEN Catch(t, fetch[CHOOSE f \in Fetches : fetch[f].pc = "failed"].error)
    ELSE IF PromiseAllResolved(fetch)
    THEN WithValue(Pipeline(fetch["workplaces"].allItems, fetch["shifts"].allItems),
                   LAMBDA p : [t EXCEPT !.pc = "reported",
                                        !.activeWorkplaceMap = p.activeWorkplaceMap,
                                        !.shiftCounts = p.shiftCounts,
                                        !.results = p.results,
                                        !.top3Workplaces = p.top3Workplaces,
                                        !.stdout = p.stdout])
    ELSE [t EXCEPT !.pc = "fetching"]

\* the remote service's answer to a GET of address u: the page, or an error
\* status when there is no such page
ServerResponse(u) ==
    IF Len(u) = 2 /\ u[1] \in Fetches /\ u[2] \in DOMAIN remote[u[1]]
    THEN remote[u[1]][u[2]]
    ELSE [ok |-> FALSE]

\* a process that has not yet run getTopWorkplaces()
NewRun ==
    [pc |-> "init",
     fetch |-> [f \in Fetches |->
                  [pc |-> "uncalled", nextUrl |-> Null, allItems |-> <<>>,
                   requests |-> <<>>, received |-> 0, error |-> "none"]],
     activeWorkplaceMap |-> <<>>, shiftCounts |-> <<>>, results |-> <<>>,
     top3Workplaces |-> <<>>, stdout |-> <<>>, stderr |-> <<>>, exitCode |-> <<>>,
     returned |-> <<>>]

\* getTopWorkplaces() up to its await: both fetches are called and run to their
\* first await
Start(r) ==
    /\ run[r].pc = "init"
    /\ run' = [run EXCEPT ![r] =
                 Settle(run[r], [f \in Fetches |-> CallFetch(initialUrl[f])])]
    /\ UNCHANGED <<remote, initialUrl>>

\* the response to the outstanding request of fetch f arrives
Receive(r, f) ==
    /\ run[r].pc = "fetching"
    /\ run[r].fetch[f].pc = "awaiting"
    /\ LET fs == OnResponse(run[r].fetch[f], ServerResponse(run[r].fetch[f].nextUrl))
       IN  run' = [run EXCEPT ![r] = Settle(run[r], [run[r].fetch EXCEPT ![f] = fs])]
    /\ UNCHANGED <<remote, initialUrl>>

\* nothing is left to run after console.log: the process exits with status 0
Exit(r) ==
    /\ run[r].pc = "reported"
    /\ run' = [run EXCEPT ![r] = [@ EXCEPT !.pc = "exited", !.exitCode = <<0>>]]
    /\ UNCHANGED <<remote, initialUrl>>

Starts == \E r \in DOMAIN run : Start(r)

Receives == \E r \in DOMAIN run : \E f \in Fetches : Receive(r, f)

Exits == \E r \in DOMAIN run : Exit(r)

Next == Starts \/ Receives \/ Exits

(***************************************************************************)
(* The datasets the remote service is started with                         *)
(***************************************************************************)
Names == <<"Alpha", "Bravo", "Charlie", "Delta", "Echo", "Foxtrot">>

\* one workplace more than the report holds
WorkplaceIds == 1 .. (TopN + 1)

\* an id no workplace has
UnknownId == TopN + 2

\* "plain": every workplace active and named; "mixed": workplace 1 has the
\* empty name, workplace 2 is inactive
Workplace(i, variant) ==
    [id |-> i,
     name |-> IF i = 1 /\ variant = "mixed" THEN "" ELSE Names[i],
     status |-> IF i = 2 /\ variant = "mixed" THEN 1 ELSE 0]

WorkplaceList(variant) == [i \in WorkplaceIds |-> Workplace(i, variant)]

Variants == {"plain", "mixed"}

Worker == <<7>>

Cancelled == <<"2024-05-01T00:00:00Z">>

ShiftKinds ==
    {[workplaceId |-> w, workerId |-> Worker, cancelledAt |-> Null] :
        w \in WorkplaceIds \cup {UnknownId}}
    \cup {[workplaceId |-> 1, workerId |-> Null, cancelledAt |-> Null],
          [workplaceId |-> 1, workerId |-> Worker, cancelledAt |-> Cancelled]}

ShiftOf(i, k) ==
    [id |-> i, workplaceId |-> k.workplaceId, workerId |-> k.workerId,
     cancelledAt |-> k.cancelledAt]

\* every listing of at most `max` shifts
ShiftLists(max) ==
    UNION {{[i \in 1 .. n |-> ShiftOf(i, ks[i])] : ks \in [1 .. n -> ShiftKinds]} :
             n \in 0 .. max}

\* the shifts of the paging datasets: the leading shifts of one fixed listing
CompletedAt(w) == [workplaceId |-> w, workerId |-> Worker, cancelledAt |-> Null]

SampleKinds ==
    <<CompletedAt(2), CompletedAt(1), CompletedAt(2),
      [workplaceId |-> 1, workerId |-> Null, cancelledAt |-> Cancelled],
      CompletedAt(3), CompletedAt(3), CompletedAt(3), CompletedAt(4)>>

SampleShifts(n) == [i \in 1 .. n |-> ShiftOf(i, SampleKinds[i])]

\* the listing of `items` in pages of `size` items, the last with a null next link;
\* an empty listing is one empty page
PageCount(items, size) ==
    IF Len(items) = 0 THEN 1 ELSE (Len(items) + size - 1) \div size

PageOf(f, items, size, i) ==
    [ok |-> TRUE,
     body |-> [data |-> SubSeq(items, (i - 1) * size + 1, Min(i * size, Len(items))),
               links |-> [next |-> IF i < PageCount(items, size)
                                   THEN Url(f, i + 1) ELSE Null]]]

Listing(f, items, size) == [i \in 1 .. PageCount(items, size) |-> PageOf(f, items, size, i)]

\* what the service sends instead of a well-formed page
FaultKinds == {"httpError", "noLinks", "noData", "bareItems"}

Faulty(page, kind) ==
    IF kind = "httpError" THEN [ok |-> FALSE]
    ELSE IF kind = "noLinks" THEN [ok |-> TRUE, body |-> [data |-> page.body.data]]
    ELSE IF kind = "noData" THEN [ok |-> TRUE, body |-> [links |-> page.body.links]]
    ELSE [ok |-> TRUE,
          body |-> [data |-> [i \in DOMAIN page.body.data |-> [id |-> page.body.data[i].id]],
                    links |-> page.body.links]]

\* datasets for ranking: every listing of shifts, each resource in one page
RankDatasets(max) ==
    {[f \in Fetches |->
        IF f = "workplaces" THEN Listing(f, WorkplaceList(v), TopN + 1)
        ELSE Listing(f, ss, max + 1)] :
       v \in Variants, ss \in ShiftLists(max)}

\* datasets for paging: page sizes vary
PagedDatasets ==
    {[f \in Fetches |->
        IF f = "workplaces" THEN Listing(f, WorkplaceList("plain"), pw)
        ELSE Listing(f, SampleShifts(n), ps)] :
       pw \in 1 .. MaxPageSize, ps \in 1 .. MaxPageSize, n \in 0 .. MaxShifts}

\* ... and one page of one resource may be faulty
FaultsOf(d) ==
    UNION {{[d EXCEPT ![f][i] = Faulty(@, k)] : i \in DOMAIN d[f], k \in FaultKinds} :
             f \in Fetches}

FaultyDatasets == UNION {FaultsOf(d) : d \in PagedDatasets}

(***************************************************************************)
(* Specifications                                                          *)
(***************************************************************************)
\* one run of the script against any dataset
Init ==
    /\ remote \in RankDatasets(MaxShifts) \cup PagedDatasets \cup FaultyDatasets
    /\ initialUrl = [f \in Fetches |-> ProgramUrl(f)]
    /\ run = [r \in {1} |-> NewRun]

Spec == Init /\ [][Next]_vars

\* fetchAllPaginatedData called with any address, the empty one included
InitCall ==
    /\ remote \in PagedDatasets \cup FaultyDatasets
    /\ initialUrl \in [Fetches -> {EmptyUrl} \cup {ProgramUrl(f) : f \in Fetches}]
    /\ run = [r \in {1} |-> NewRun]

CallSpec == InitCall /\ [][Next]_vars

\* two runs of the script against the same dataset
InitPair ==
    /\ remote \in PagedDatasets \cup FaultyDatasets
    /\ initialUrl = [f \in Fetches |-> ProgramUrl(f)]
    /\ run = [r \in {1, 2} |-> NewRun]

PairSpec == InitPair /\ [][Next]_vars

\* one run in which every response arrives and every handler runs
InitPaged ==
    /\ remote \in PagedDatasets \cup FaultyDatasets
    /\ initialUrl = [f \in Fetches |-> ProgramUrl(f)]
    /\ run = [r \in {1} |-> NewRun]

FairSpec == InitPaged /\ [][Next]_vars /\ WF_vars(Next)


(***************************************************************************)
(* What the claims speak of, read off the remote data and the run          *)
(***************************************************************************)
Runs == DOMAIN run

\* the pages of the chain that starts at address u, in chain order; the chain
\* ends at a falsy address and behind a page that carries no next link
RECURSIVE ChainFrom(_)
ChainFrom(u) ==
    IF ~TruthyUrl(u) THEN <<>>
    ELSE LET p == ServerResponse(u)
         IN  <<[url |-> u, page |-> p]>> \o
             (IF p.ok /\ Has(p.body, "links") /\ Has(p.body.links, "next")
              THEN ChainFrom(p.body.links.next) ELSE <<>>)

Chain(f) == ChainFrom(initialUrl[f])

\* every page of the chain is a success response with a data list and links
ChainIsSound(f) ==
    \A i \in DOMAIN Chain(f) :
        LET p == Chain(f)[i].page
        IN  p.ok /\ Has(p.body, "data") /\ Has(p.body, "links")

RECURSIVE Concat(_)
Concat(ss) == IF ss = <<>> THEN <<>> ELSE ss[1] \o Concat(Tail(ss))

ChainItems(f) == Concat([i \in DOMAIN Chain(f) |-> Chain(f)[i].page.body.data])

ChainUrls(f) == [i \in DOMAIN Chain(f) |-> Chain(f)[i].url]

IsPrefix(s, t) == Len(s) <= Len(t) /\ s = SubSeq(t, 1, Len(s))

\* the run printed its report
Reported(r) == run[r].stdout # <<>>

\* the array the run printed
Printed(r) == run[r].stdout[1]

(***************************************************************************)
(* C1.  A call of fetchAllPaginatedData over a chain of k sound pages      *)
(* (k = 0: a falsy initial address) does not throw, and what it returns    *)
(* is the concatenation of the k pages' items, in page order and in each   *)
(* page's order.                                                           *)
(***************************************************************************)
C1_ReturnsConcatenation ==
    \A r \in Runs : \A f \in Fetches :
        ChainIsSound(f) =>
            /\ run[r].fetch[f].pc # "failed"
            /\ run[r].fetch[f].pc = "done" =>
                   run[r].fetch[f].allItems = ChainItems(f)

\* one fetch returned the items of a chain of several pages, the other was
\* called with an empty address and returned nothing
C1_Witness ==
    \E r \in Runs : \E f, g \in Fetches :
        /\ run[r].fetch[f].pc = "done"
        /\ Len(Chain(f)) > 2
        /\ Len(run[r].fetch[f].allItems) > 2
        /\ run[r].fetch[f].allItems[1] # run[r].fetch[f].allItems[2]
        /\ run[r].fetch[g].pc = "done"
        /\ Chain(g) = <<>>
        /\ run[r].fetch[g].allItems = <<>>

(***************************************************************************)
(* C2.  The requests of a fetch are the addresses of its chain, in chain   *)
(* order, each once: never more than the chain holds, and all of them      *)
(* once the fetch has returned, so that nothing is requested behind the    *)
(* page with the null next link.  A fetch over a sound chain ends: it      *)
(* returns, unless the failure of the other fetch ends the process first.  *)
(***************************************************************************)
C2_RequestsAlongChain ==
    \A r \in Runs : \A f \in Fetches :
        /\ IsPrefix(run[r].fetch[f].requests, ChainUrls(f))
        /\ run[r].fetch[f].pc = "done" => run[r].fetch[f].requests = ChainUrls(f)

C2_Ended ==
    \A r \in Runs : \A f \in Fetches :
        ChainIsSound(f) => run[r].fetch[f].pc = "done" \/ run[r].exitCode = <<1>>

C2_StopsAtNullLink == [] C2_RequestsAlongChain /\ <> C2_Ended

\* a fetch returned after requesting the several pages of its chain, the last
\* of which carries the null link
C2_Witness ==
    \E r \in Runs : \E f \in Fetches :
        /\ run[r].fetch[f].pc = "done"
        /\ Len(run[r].fetch[f].requests) > 2
        /\ run[r].fetch[f].nextUrl = Null
        /\ run[r].fetch[f].received = Len(run[r].fetch[f].requests)

(***************************************************************************)
(* The fetched data as the specification reads it                          *)
(***************************************************************************)
AllIds == WorkplaceIds \cup {UnknownId}

AllWorkplaces(r) == run[r].fetch["workplaces"].allItems

AllShifts(r) == run[r].fetch["shifts"].allItems

\* id belongs to a fetched workplace with status 0
ActiveId(r, id) ==
    \E i \in DOMAIN AllWorkplaces(r) :
        LET w == AllWorkplaces(r)[i]
        IN  Has(w, "id") /\ w.id = id /\ Has(w, "status") /\ w.status = 0

\* the fetched shifts that reference id, with a non-null workerId and a null
\* cancelledAt
CompletedFor(r, id) ==
    {i \in DOMAIN AllShifts(r) :
        LET s == AllShifts(r)[i]
        IN  /\ Has(s, "workplaceId") /\ s.workplaceId = id
            /\ ~(Has(s, "workerId") /\ s.workerId = Null)
            /\ Has(s, "cancelledAt") /\ s.cancelledAt = Null}

\* the completed-shift count of an active workplace, 0 for any other id
CompletedCount(r, id) == IF ActiveId(r, id) THEN Cardinality(CompletedFor(r, id)) ELSE 0

\* the ids of the active workplaces with at least one completed shift
Ranking(r) == {id \in AllIds : CompletedCount(r, id) > 0}

\* the count shiftCounts holds for id
HeldCount(r, id) ==
    LET es == {i \in DOMAIN run[r].shiftCounts : run[r].shiftCounts[i].key = id}
    IN  IF es = {} THEN 0 ELSE run[r].shiftCounts[CHOOSE i \in es : TRUE].value

PrintedIds(r) == {run[r].top3Workplaces[i].id : i \in DOMAIN run[r].top3Workplaces}

(***************************************************************************)
(* C3.  After aggregation the count held for a workplace id is the number  *)
(* of fetched shifts that reference it, have a non-null workerId and a     *)
(* null cancelledAt, when the id is that of a workplace with status 0; no  *)
(* other id is held, each id is held once and no held count is 0.          *)
(***************************************************************************)
C3_CountsAreExact ==
    \A r \in Runs :
        Reported(r) =>
            /\ \A id \in AllIds : HeldCount(r, id) = CompletedCount(r, id)
            /\ \A i, j \in DOMAIN run[r].shiftCounts :
                   /\ run[r].shiftCounts[i].key \in AllIds
                   /\ run[r].shiftCounts[i].value > 0
                   /\ run[r].shiftCounts[i].key = run[r].shiftCounts[j].key => i = j

\* a report over shifts of every sort: two counted for one workplace, one
\* cancelled, one of an inactive workplace
C3_Witness ==
    \E r \in Runs :
        /\ Reported(r)
        /\ \E id \in AllIds : HeldCount(r, id) = 2
        /\ \E i \in DOMAIN AllShifts(r) : AllShifts(r)[i].cancelledAt # Null
        /\ \E i \in DOMAIN AllShifts(r) :
               /\ AllShifts(r)[i].workerId # Null
               /\ AllShifts(r)[i].cancelledAt = Null
               /\ ~ActiveId(r, AllShifts(r)[i].workplaceId)

(***************************************************************************)
(* C4.  The responses a run has received, and the two readings of a bad    *)
(* one.                                                                    *)
(***************************************************************************)
Received(r) ==
    UNION {{[of |-> f, resp |-> ServerResponse(run[r].fetch[f].requests[i])] :
              i \in 1 .. run[r].fetch[f].received} : f \in Fetches}

ItemFields(f) ==
    IF f = "workplaces" THEN {"id", "name", "status"}
    ELSE {"id", "workplaceId", "workerId", "cancelledAt"}

\* the request failed
RequestFailed(x) == ~x.resp.ok

\* the body is not {data: [...items of the resource...], links: {next}}
Malformed(x) ==
    /\ x.resp.ok
    /\ \/ ~Has(x.resp.body, "data")
       \/ ~Has(x.resp.body, "links")
       \/ \E i \in DOMAIN x.resp.body.data : DOMAIN x.resp.body.data[i] # ItemFields(x.of)

\* the body has no data list or no links object, so that reading it throws
Unreadable(x) ==
    x.resp.ok /\ (~Has(x.resp.body, "data") \/ ~Has(x.resp.body, "links"))

FailedRun(r) ==
    /\ run[r].pc = "exited"
    /\ run[r].exitCode # <<>> /\ run[r].exitCode # <<0>>
    /\ run[r].stderr # <<>>
    /\ run[r].stdout = <<>>

(***************************************************************************)
(* C4 as claimed.  A run that received a failed request or a malformed     *)
(* page has written a diagnostic to the error stream and nothing to        *)
(* standard output, and has exited with a non-zero status.                 *)
(***************************************************************************)
C4_AnyBadResponseFails ==
    \A r \in Runs :
        (\E x \in Received(r) : RequestFailed(x) \/ Malformed(x)) => FailedRun(r)

(***************************************************************************)
(* C4 as amended.  A run that received a failed request, or a page whose   *)
(* body has no data list or no links object, has written a diagnostic to   *)
(* the error stream and nothing to standard output, and has exited with a  *)
(* non-zero status; and no run that exits with a non-zero status has       *)
(* written to standard output.                                             *)
(***************************************************************************)
C4_ThrowingResponseFails ==
    \A r \in Runs :
        /\ (\E x \in Received(r) : RequestFailed(x) \/ Unreadable(x)) => FailedRun(r)
        /\ run[r].exitCode \notin {<<>>, <<0>>} => run[r].stdout = <<>>

\* the second page of shifts was an error, after the workplaces had all been
\* fetched
C4_Witness ==
    \E r \in Runs :
        /\ run[r].fetch["workplaces"].pc = "done"
        /\ run[r].fetch["workplaces"].received > 1
        /\ run[r].fetch["shifts"].pc = "failed"
        /\ run[r].fetch["shifts"].received = 2
        /\ ~ServerResponse(run[r].fetch["shifts"].requests[2]).ok
        /\ FailedRun(r)

(***************************************************************************)
(* C5.  A report has min(3, n) entries, n the number of active workplaces  *)
(* with at least one completed shift, whatever the workplaces are named.   *)
(***************************************************************************)
C5_EntryCount ==
    \A r \in Runs :
        Reported(r) => Len(Printed(r)) = Min(3, Cardinality(Ranking(r)))

(***************************************************************************)
(* C6.  A report has at most 3 entries, and each entry's shifts is at      *)
(* least the shifts of the entry after it.                                 *)
(***************************************************************************)
C6_AtMostThreeSorted ==
    \A r \in Runs :
        Reported(r) =>
            /\ Len(Printed(r)) <= 3
            /\ \A i \in 1 .. Len(Printed(r)) - 1 :
                   Printed(r)[i].shifts >= Printed(r)[i + 1].shifts

\* three entries were printed, and the sort moved the workplace counted last
\* to the front
C6_Witness ==
    \E r \in Runs :
        /\ Reported(r)
        /\ Len(Printed(r)) = 3
        /\ Printed(r)[1].shifts > Printed(r)[2].shifts
        /\ run[r].top3Workplaces[1].id = Last(run[r].shiftCounts).key

(***************************************************************************)
(* C7.  Every active workplace with at least one completed shift that is   *)
(* not in the report has a count no greater than the count of any entry    *)
(* in the report.                                                          *)
(***************************************************************************)
C7_PrintedAreHighest ==
    \A r \in Runs :
        Reported(r) =>
            \A id \in Ranking(r) \ PrintedIds(r) :
                \A i \in DOMAIN Printed(r) : CompletedCount(r, id) <= Printed(r)[i].shifts

(***************************************************************************)
(* C8.  Two runs against the same dataset that have both ended have        *)
(* written the same to standard output and ended with the same status,     *)
(* however their responses were interleaved.                               *)
(***************************************************************************)
C8_SameOutput ==
    \A r1, r2 \in Runs :
        run[r1].pc = "exited" /\ run[r2].pc = "exited" =>
            /\ run[r1].stdout = run[r2].stdout
            /\ run[r1].exitCode = run[r2].exitCode

\* both runs reported several entries; in one the workplaces were complete
\* first, in the other the shifts
C8_Witness ==
    /\ Runs = {1, 2}
    /\ \A r \in Runs : run[r].pc = "exited" /\ Reported(r) /\ Len(Printed(r)) > 1
    /\ run[1].returned = <<"workplaces", "shifts">>
    /\ run[2].returned = <<"shifts", "workplaces">>
    /\ \A r \in Runs : \A f \in Fetches : run[r].fetch[f].received > 1

(***************************************************************************)
(* C9.  Building the lookup, counting and printing happen only when both   *)
(* fetches have returned, with no request outstanding and no page left to  *)
(* request; and a fetch has at most one request outstanding: it has made   *)
(* at most one request more than it has received responses, exactly when   *)
(* it is awaiting one.                                                     *)
(***************************************************************************)
Outstanding(r, f) == Len(run[r].fetch[f].requests) - run[r].fetch[f].received

Processing(r) ==
    \/ run[r].pc = "reported"
    \/ run[r].activeWorkplaceMap # <<>>
    \/ run[r].shiftCounts # <<>>
    \/ run[r].results # <<>>
    \/ run[r].stdout # <<>>

C9_JoinBeforeProcessing ==
    \A r \in Runs :
        /\ Processing(r) =>
               \A f \in Fetches :
                   /\ run[r].fetch[f].pc = "done"
                   /\ Outstanding(r, f) = 0
                   /\ ~TruthyUrl(run[r].fetch[f].nextUrl)
        /\ \A f \in Fetches :
               /\ Outstanding(r, f) \in {0, 1}
               /\ Outstanding(r, f) = 1 <=> run[r].fetch[f].pc = "awaiting"

\* a report made after both fetches went through several pages
C9_Witness ==
    \E r \in Runs :
        /\ run[r].pc = "reported"
        /\ run[r].shiftCounts # <<>>
        /\ \A f \in Fetches : run[r].fetch[f].received > 1

(***************************************************************************)
(* C10.  Of two workplaces with equal completed-shift counts, the one      *)
(* whose first counted shift comes earlier in the fetched shifts stands    *)
(* earlier in the sorted results, and is printed if the other is.          *)
(***************************************************************************)
FirstCounted(r, id) == CHOOSE i \in CompletedFor(r, id) : \A j \in CompletedFor(r, id) : i <= j

PlaceOf(r, id) ==
    IF \E i \in DOMAIN run[r].results : run[r].results[i].id = id
    THEN CHOOSE i \in DOMAIN run[r].results : run[r].results[i].id = id
    ELSE 0

C10_TiesInEncounterOrder ==
    \A r \in Runs :
        Reported(r) =>
            \A a, b \in Ranking(r) :
                /\ CompletedCount(r, a) = CompletedCount(r, b)
                /\ FirstCounted(r, a) < FirstCounted(r, b)
                => /\ PlaceOf(r, a) > 0
                   /\ PlaceOf(r, b) > 0
                   /\ PlaceOf(r, a) < PlaceOf(r, b)
                   /\ b \in PrintedIds(r) => a \in PrintedIds(r)

====
